---- MODULE Spec2Model ----
(***************************************************************************)
(* Authentication handshake dispatcher of the MariaDB Node.js connector    *)
(* (lib/cmd/handshake/authentication.js).                                  *)
(*                                                                         *)
(* One session is modelled: the Authentication command, the plugin it      *)
(* holds in its slot (this.plugin), the plugin objects built so far, and   *)
(* the pending result (resolve / reject).  Inbound packets are sequences   *)
(* of bytes; every step of the model is one call of                        *)
(* Authentication.onPacketReceive with one packet.                         *)
(***************************************************************************)
EXTENDS Integers, Sequences, FiniteSets, TLC

----------------------------------------------------------------------------
(* Bounds of the model.                                                    *)

\* number of inbound packets of one session
MaxPackets == 3

----------------------------------------------------------------------------
(* Strings are sequences of character codes (ASCII).                       *)

mysql_native_password == <<109, 121, 115, 113, 108, 95, 110, 97, 116, 105, 118, 101, 95, 112, 97, 115, 115, 119, 111, 114, 100>>
mysql_clear_password == <<109, 121, 115, 113, 108, 95, 99, 108, 101, 97, 114, 95, 112, 97, 115, 115, 119, 111, 114, 100>>
client_ed25519 == <<99, 108, 105, 101, 110, 116, 95, 101, 100, 50, 53, 53, 49, 57>>
dialog == <<100, 105, 97, 108, 111, 103>>
sha256_password == <<115, 104, 97, 50, 53, 54, 95, 112, 97, 115, 115, 119, 111, 114, 100>>
caching_sha2_password == <<99, 97, 99, 104, 105, 110, 103, 95, 115, 104, 97, 50, 95, 112, 97, 115, 115, 119, 111, 114, 100>>
mysql_old_password == <<109, 121, 115, 113, 108, 95, 111, 108, 100, 95, 112, 97, 115, 115, 119, 111, 114, 100>>

\* names the server may send that are no key of the registry
unknown_plugin == <<117, 110, 107, 110, 111, 119, 110, 95, 112, 108, 117, 103, 105, 110>>
constructor == <<99, 111, 110, 115, 116, 114, 117, 99, 116, 111, 114>>
toString == <<116, 111, 83, 116, 114, 105, 110, 103>>

\* a registry that also knows the pre-4.1 mechanism
authenticationPlugins_WithOldPassword ==
  (mysql_native_password :> "native-password-auth") @@
  (mysql_clear_password :> "clear-password-auth") @@
  (client_ed25519 :> "ed25519-password-auth") @@
  (dialog :> "pam-password-auth") @@
  (sha256_password :> "sha256-password-auth") @@
  (caching_sha2_password :> "caching-sha2-password-auth") @@
  (mysql_old_password :> "native-password-auth")

\* const authenticationPlugins = { ... }: mechanism name -> plugin class
authenticationPlugins ==
  (mysql_native_password :> "native-password-auth") @@
  (mysql_clear_password :> "clear-password-auth") @@
  (client_ed25519 :> "ed25519-password-auth") @@
  (dialog :> "pam-password-auth") @@
  (sha256_password :> "sha256-password-auth") @@
  (caching_sha2_password :> "caching-sha2-password-auth")

\* authenticationPlugins is an object literal: a property read also finds
\* what the object inherits from Object.prototype.  "Object" is the
\* constructor Object, "function" a built-in method (no constructor).
ObjectPrototype ==
  (constructor :> "Object") @@ (toString :> "function")

\* a lookup that falls back to a default plugin for names it does not know
RegistryGet_Default(pluginName) ==
  IF pluginName \in DOMAIN authenticationPlugins THEN authenticationPlugins[pluginName]
  ELSE "native-password-auth"

\* authenticationPlugins[pluginName]
RegistryGet(pluginName) ==
  IF pluginName \in DOMAIN authenticationPlugins THEN authenticationPlugins[pluginName]
  ELSE IF pluginName \in DOMAIN ObjectPrototype THEN ObjectPrototype[pluginName]
  ELSE "undefined"

\* Capabilities.PLUGIN_AUTH: the "plugin-auth supported" bit (1 << 19)
PLUGIN_AUTH == 524288

\* info.clientCapabilities & Capabilities.PLUGIN_AUTH
HasPluginAuth(clientCapabilities) == (clientCapabilities \div PLUGIN_AUTH) % 2 = 1

----------------------------------------------------------------------------
(* Packet cursor: [buf, pos], pos = number of bytes already consumed.      *)

Cursor(buf) == [buf |-> buf, pos |-> 0]

\* packet.remaining()
remaining(c) == IF Len(c.buf) > c.pos THEN Len(c.buf) - c.pos ELSE 0

\* packet.peek(): the byte at the cursor, not consumed
peek(c) == c.buf[c.pos + 1]

\* packet.skip(n)
skip(c, n) == [c EXCEPT !.pos = c.pos + n]

\* width of the length-encoded integer at the cursor
LengthCodedWidth(c) ==
  LET b == peek(c) IN
  IF b = 252 THEN 3 ELSE IF b = 253 THEN 4 ELSE IF b = 254 THEN 9 ELSE 1

\* packet.skipLengthCodedNumber()
skipLengthCodedNumber(c) == skip(c, LengthCodedWidth(c))

\* value of packet.readUInt16(): two bytes, little endian
readUInt16(c) == c.buf[c.pos + 1] + 256 * c.buf[c.pos + 2]

\* value of the length-encoded integer at the cursor (one and three byte forms)
LengthCodedValue(c) ==
  IF peek(c) = 252 THEN c.buf[c.pos + 2] + 256 * c.buf[c.pos + 3] ELSE peek(c)

\* bytes from..to of a buffer (1-based, inclusive), clipped to the buffer
Slice(buf, from, to) ==
  LET hi == IF to > Len(buf) THEN Len(buf) ELSE to IN
  IF hi < from THEN <<>> ELSE [i \in 1..(hi - from + 1) |-> buf[from + i - 1]]

\* value of packet.readBufferLengthEncoded()
readBufferLengthEncoded(c) ==
  LET n == LengthCodedValue(c)
      start == c.pos + LengthCodedWidth(c)
  IN Slice(c.buf, start + 1, start + n)

\* number of bytes before the first null byte at or after the cursor
RECURSIVE NullEndedCount(_, _)
NullEndedCount(buf, pos) ==
  IF pos >= Len(buf) THEN 0
  ELSE IF buf[pos + 1] = 0 THEN 0
  ELSE 1 + NullEndedCount(buf, pos + 1)

\* decoding of one byte: 'ascii' drops the high bit, the default (utf8)
\* turns a lone byte above 0x7f into the replacement character U+FFFD
DecodeByte(b, encoding) ==
  IF b < 128 THEN b ELSE IF encoding = "ascii" THEN b - 128 ELSE 65533

\* packet.readStringNullEnded(encoding): [str, next cursor]
readStringNullEnded(c, encoding) ==
  LET cnt == NullEndedCount(c.buf, c.pos)
      raw == Slice(c.buf, c.pos + 1, c.pos + cnt)
      past == IF c.pos + cnt < Len(c.buf) THEN c.pos + cnt + 1 ELSE c.pos + cnt
  IN [str |-> [i \in 1..Len(raw) |-> DecodeByte(raw[i], encoding)],
      cur |-> [c EXCEPT !.pos = past]]

\* value of packet.readBufferRemaining()
readBufferRemaining(c) == Slice(c.buf, c.pos + 1, Len(c.buf))

\* packet.readError(info, sql): 0xff, 2-byte errno, optional '#' + SQLSTATE
readError(c) ==
  LET errno == c.buf[2] + 256 * c.buf[3]
      marked == Len(c.buf) >= 9 /\ c.buf[4] = 35
  IN [errno |-> errno,
      sqlState |-> IF marked THEN Slice(c.buf, 5, 9) ELSE <<72, 89, 48, 48, 48>>,
      fatal |-> FALSE,
      detail |-> <<>>]

----------------------------------------------------------------------------
(* Fingerprint validation.                                                 *)

RECURSIVE SumBytes(_)
SumBytes(bytes) == IF bytes = <<>> THEN 0 ELSE bytes[1] + SumBytes(Tail(bytes))

RECURSIVE MixBytes(_, _)
MixBytes(bytes, acc) ==
  IF bytes = <<>> THEN acc ELSE MixBytes(Tail(bytes), (acc * 31 + bytes[1] + 7) % 256)

\* Crypto.createHash('sha256').update(a).update(b).update(c).digest():
\* a digest of the concatenation of the updates.  The digest function is
\* a two-byte stand-in for SHA-256 (deterministic, sensitive to every byte
\* and to their order).
Sha256Digest(a, b, c) ==
  LET all == a \o b \o c IN <<MixBytes(all, 17), (SumBytes(all) + Len(all)) % 256>>

\* one hex digit as a character code, lower case
HexDigit(n) == IF n < 10 THEN 48 + n ELSE 87 + n

\* utils.toHexString(bytes): two lower-case hex digits per byte
RECURSIVE toHexString(_)
toHexString(bytes) ==
  IF bytes = <<>> THEN <<>>
  ELSE <<HexDigit(bytes[1] \div 16), HexDigit(bytes[1] % 16)>> \o toHexString(Tail(bytes))

\* value of one hex digit given as a character code (-1: no hex digit)
HexValue(ch) ==
  IF ch >= 48 /\ ch <= 57 THEN ch - 48
  ELSE IF ch >= 97 /\ ch <= 102 THEN ch - 87
  ELSE IF ch >= 65 /\ ch <= 70 THEN ch - 55
  ELSE -1

\* Buffer.from(str, 'hex'): decodes pairs of hex digits, stops at the
\* first pair that is not hex
RECURSIVE BufferFromHex(_)
BufferFromHex(str) ==
  IF Len(str) < 2 THEN <<>>
  ELSE IF HexValue(str[1]) < 0 \/ HexValue(str[2]) < 0 THEN <<>>
  ELSE <<16 * HexValue(str[1]) + HexValue(str[2])>> \o BufferFromHex(Tail(Tail(str)))

\* String.prototype.toLowerCase on character codes
toLowerCase(str) ==
  [i \in 1..Len(str) |-> IF str[i] >= 65 /\ str[i] <= 90 THEN str[i] + 32 ELSE str[i]]

\* validationHash.toString('ascii', 1, validationHash.length)
AsciiFrom1(validationHash) ==
  [i \in 1..(Len(validationHash) - 1) |-> DecodeByte(validationHash[i + 1], "ascii")]

\* assert.equal(validationHash[0], 0x01) passes
TagAsserted(validationHash) == validationHash[1] = 1

\* hashHex === serverValidationHex
HashMatches(validationHash, pwdHash, seed, tlsFingerprint) ==
  toHexString(Sha256Digest(pwdHash, seed, BufferFromHex(tlsFingerprint)))
    = toLowerCase(AsciiFrom1(validationHash))

\* Authentication.validateFingerPrint: "true", "false", or "AssertionError"
\* when the assertion on the tag byte throws
validateFingerPrint(validationHash, pwdHash, seed, tlsFingerprint) ==
  IF Len(validationHash) = 0 THEN "false"
  ELSE IF ~TagAsserted(validationHash) THEN "AssertionError"
  ELSE IF HashMatches(validationHash, pwdHash, seed, tlsFingerprint) THEN "true"
  ELSE "false"

----------------------------------------------------------------------------
(* The session.                                                            *)

VARIABLES
  info,               \* requireValidCert, selfSignedCertificate, clientCapabilities, seed, tlsFingerprint, status
  opts,               \* restrictedAuth, password
  plugin,             \* this.plugin: index into heap
  heap,               \* the objects that were ever held in this.plugin
  sequenceNo,         \* this.sequenceNo
  compressSequenceNo, \* this.compressSequenceNo
  active,             \* the command still takes packets (its own callback is not cleared)
  resolved,           \* number of times success was signalled
  rejected,           \* the error records delivered to the rejection path, in order
  thrown,             \* exception that escaped the last call of onPacketReceive
  lookups,            \* number of reads of the plugin registry
  npackets,           \* number of inbound packets so far
  last                \* the last inbound packet and where it went

vars == <<info, opts, plugin, heap, sequenceNo, compressSequenceNo, active,
          resolved, rejected, thrown, lookups, npackets, last>>

\* the part of the state the handlers change
World ==
  [info |-> info, plugin |-> plugin, heap |-> heap, active |-> active,
   resolved |-> resolved, rejected |-> rejected, thrown |-> thrown, lookups |-> lookups]

----------------------------------------------------------------------------
(* Command and plugin base classes.                                        *)

\* Errors.createError / createFatalError
createError(code, fatal, sqlState, detail) ==
  [code |-> code, errno |-> 0, sqlState |-> sqlState, fatal |-> fatal, detail |-> detail]

\* the error record of a server ERR packet
ServerError(e) ==
  [code |-> "server", errno |-> e.errno, sqlState |-> e.sqlState, fatal |-> e.fatal, detail |-> e.detail]

Delivered(err, via, by) ==
  [code |-> err.code, errno |-> err.errno, sqlState |-> err.sqlState, fatal |-> err.fatal,
   detail |-> err.detail, via |-> via, plugin |-> by]

\* Command.throwNewError on the Authentication command: the pending result
\* is rejected with the error and the command takes no further packet
throwNewError(w, code, fatal, sqlState, detail) ==
  [w EXCEPT !.rejected = Append(@, Delivered(createError(code, fatal, sqlState, detail), "throwNewError", 0)),
            !.active = FALSE]

\* Command.successEnd on the Authentication command: success is signalled
\* and the command takes no further packet
successEnd(w) == [w EXCEPT !.resolved = @ + 1, !.active = FALSE]

\* plugin.throwError(err, info): the plugin's sink of a fatal error, which
\* hands it to the rejection path it was constructed with
throwError(w, err) ==
  [w EXCEPT !.rejected = Append(@, Delivered(err, "plugin.throwError", w.plugin))]

\* the plugin classes whose permitHash() answers true
HashCapable == {"handshake", "native-password-auth", "ed25519-password-auth"}

\* plugin.hash(opts): a digest of the configured password
PluginHash(password) == <<MixBytes(password.str, 3), Len(password.str)>>

\* new pluginAuth(packSeq, compressPackSeq, pluginData, cmdParam, authReject, multiAuthResolver):
\* the new plugin routes its packets to multiAuthResolver
NewPlugin(cls, packSeq, compressPackSeq, pluginData) ==
  [cls |-> cls, pluginData |-> pluginData, sequenceNo |-> packSeq,
   compressSequenceNo |-> compressPackSeq, onPacketReceive |-> "set",
   permitHash |-> cls \in HashCapable, ends |-> 0, starts |-> 0, received |-> 0]

\* new Object(packSeq, ...): a Number wrapper, no plugin (no start, no callback)
NewNumberObject(packSeq, compressPackSeq) ==
  [cls |-> "Number", pluginData |-> <<>>, sequenceNo |-> packSeq,
   compressSequenceNo |-> compressPackSeq, onPacketReceive |-> "undefined",
   permitHash |-> FALSE, ends |-> 0, starts |-> 0, received |-> 0]

\* plugin.start(out, opts, info): sends the first packet of the sub-protocol
PluginStart(p) == [p EXCEPT !.starts = @ + 1, !.sequenceNo = (@ + 1) % 256]

----------------------------------------------------------------------------
(* Authentication.                                                         *)

\* a parse whose legacy form takes the whole seed as the challenge
ParseAuthSwitchRequest_WholeSeed(packet, inf) ==
  IF HasPluginAuth(inf.clientCapabilities)
  THEN LET c1 == skip(Cursor(packet), 1) IN
       IF remaining(c1) > 0
       THEN LET r == readStringNullEnded(c1, "utf8") IN
            [pluginName |-> r.str, pluginData |-> readBufferRemaining(r.cur)]
       ELSE [pluginName |-> mysql_old_password, pluginData |-> inf.seed]
  ELSE LET r == readStringNullEnded(Cursor(packet), "ascii") IN
       [pluginName |-> r.str, pluginData |-> readBufferRemaining(r.cur)]

\* the name and data an AuthSwitchRequest is parsed to
ParseAuthSwitchRequest(packet, inf) ==
  IF HasPluginAuth(inf.clientCapabilities)
  THEN LET c1 == skip(Cursor(packet), 1) IN
       IF remaining(c1) > 0
       THEN LET r == readStringNullEnded(c1, "utf8") IN
            [pluginName |-> r.str, pluginData |-> readBufferRemaining(r.cur)]
       ELSE [pluginName |-> mysql_old_password, pluginData |-> Slice(inf.seed, 1, 8)]
  ELSE LET r == readStringNullEnded(Cursor(packet), "ascii") IN
       [pluginName |-> r.str, pluginData |-> readBufferRemaining(r.cur)]

\* an allow-list check that takes an empty list for no list
NotPermitted_NonEmptyOnly(o, pluginName) ==
  /\ o.restrictedAuth.isSet
  /\ Len(o.restrictedAuth.list) > 0
  /\ \A i \in 1..Len(o.restrictedAuth.list) : o.restrictedAuth.list[i] # pluginName

\* opts.restrictedAuth && !opts.restrictedAuth.includes(pluginName)
NotPermitted(o, pluginName) ==
  o.restrictedAuth.isSet /\ \A i \in 1..Len(o.restrictedAuth.list) : o.restrictedAuth.list[i] # pluginName

\* a detach that clears the callback without the end notification
DetachForSwitch_NoEnd(w) == [w EXCEPT !.heap[w.plugin].onPacketReceive = "null"]

\* a detach that notifies the end and leaves the callback in place
DetachForSwitch_NoClear(w) == [w EXCEPT !.heap[w.plugin].ends = @ + 1]

\* this.plugin.emit('end'); this.plugin.onPacketReceive = null;
DetachForSwitch(w) ==
  [w EXCEPT !.heap[w.plugin].ends = @ + 1, !.heap[w.plugin].onPacketReceive = "null"]

\* this.reject(err) in the catch block
RejectCaught(w, err) == [w EXCEPT !.rejected = Append(@, Delivered(err, "reject", 0))]

\* an attach that hands the new plugin the two counters in the wrong order
AttachPlugin_SwappedCounters(w, pluginName, pluginData) ==
  LET pluginAuth == RegistryGet(pluginName)
      old == w.heap[w.plugin]
      w1 == [w EXCEPT !.lookups = @ + 1]
  IN
  IF pluginAuth \in {"undefined", "function", "Object"}
  THEN RejectCaught(w1, createError("TypeError", FALSE, <<>>, pluginName))
  ELSE [w1 EXCEPT !.heap = Append(@, PluginStart(NewPlugin(pluginAuth, old.compressSequenceNo, old.sequenceNo, pluginData))),
                  !.plugin = Len(w.heap) + 1]

\* Authentication.pluginHandler and the rest of the try block, after the
\* previous plugin was detached
AttachPlugin(w, pluginName, pluginData) ==
  LET pluginAuth == RegistryGet(pluginName)
      old == w.heap[w.plugin]
      w1 == [w EXCEPT !.lookups = @ + 1]
  IN
  IF pluginAuth = "undefined"
  THEN RejectCaught(w1, createError("ER_AUTHENTICATION_PLUGIN_NOT_SUPPORTED", TRUE, <<48, 56, 48, 48, 52>>, pluginName))
  ELSE IF pluginAuth = "function"
  THEN RejectCaught(w1, createError("TypeError", FALSE, <<>>, pluginName))
  ELSE IF pluginAuth = "Object"
  THEN RejectCaught(
         [w1 EXCEPT !.heap = Append(@, NewNumberObject(old.sequenceNo, old.compressSequenceNo)),
                    !.plugin = Len(w.heap) + 1],
         createError("TypeError", FALSE, <<>>, pluginName))
  ELSE [w1 EXCEPT !.heap = Append(@, PluginStart(NewPlugin(pluginAuth, old.sequenceNo, old.compressSequenceNo, pluginData))),
                  !.plugin = Len(w.heap) + 1]

\* Authentication.dispatchAuthSwitchRequest
dispatchAuthSwitchRequest(w, packet, o) ==
  LET req == ParseAuthSwitchRequest(packet, w.info) IN
  IF NotPermitted(o, req.pluginName)
  THEN throwNewError(w, "ER_NOT_SUPPORTED_AUTH_PLUGIN", TRUE, <<52, 50, 48, 48, 48>>, req.pluginName)
  ELSE AttachPlugin(DetachForSwitch(w), req.pluginName, req.pluginData)

\* !this.plugin.permitHash() || !this.cmdParam.opts.password || this.cmdParam.opts.password === ''
NoUsableSecret(w, o) ==
  ~w.heap[w.plugin].permitHash \/ ~o.password.isSet \/ o.password.str = <<>>

\* the self-signed part of the OK branch; c is the cursor after the status
SelfSignedResult(w, c, o) ==
  LET c1 == skip(c, 2)
      validationHash == IF remaining(c1) > 0 THEN readBufferLengthEncoded(c1) ELSE <<>>
      selfSigned == throwNewError(w, "ER_SELF_SIGNED", TRUE, <<48, 56, 48, 48, 48>>, <<>>)
  IN
  IF remaining(c1) > 0 /\ Len(validationHash) > 0
  THEN IF NoUsableSecret(w, o)
       THEN throwNewError(w, "ER_SELF_SIGNED_NO_PWD", TRUE, <<48, 56, 48, 48, 48>>, <<>>)
       ELSE LET v == validateFingerPrint(validationHash, PluginHash(o.password), w.info.seed, w.info.tlsFingerprint) IN
            IF v = "true" THEN successEnd(w)
            ELSE IF v = "AssertionError" THEN [w EXCEPT !.thrown = "AssertionError"]
            ELSE selfSigned
  ELSE selfSigned

\* the callback is left in place
ClearCallback_Kept(w) == w

\* this.plugin.onPacketReceive = null, first statement of the OK and ERR branches
ClearCallback(w) == [w EXCEPT !.heap[w.plugin].onPacketReceive = "null"]

\* an OK branch that leaves the plugin's callback in place
OkPacketResult_NoClear(w, packet, o) ==
  LET c == skipLengthCodedNumber(skipLengthCodedNumber(skip(Cursor(packet), 1)))
      w2 == [w EXCEPT !.info.status = readUInt16(c)]
  IN
  IF w2.info.requireValidCert /\ w2.info.selfSignedCertificate
  THEN SelfSignedResult(w2, skip(c, 2), o)
  ELSE successEnd(w2)

\* case 0x00 of handshakeResult
OkPacketResult(w, packet, o) ==
  LET w1 == ClearCallback(w)
      c == skipLengthCodedNumber(skipLengthCodedNumber(skip(Cursor(packet), 1)))
      w2 == [w1 EXCEPT !.info.status = readUInt16(c)]
  IN
  IF w2.info.requireValidCert /\ w2.info.selfSignedCertificate
  THEN SelfSignedResult(w2, skip(c, 2), o)
  ELSE successEnd(w2)

\* the error is passed on as parsed
MarkFatal_Unset(err) == err

\* authErr.fatal = true
MarkFatal(err) == [err EXCEPT !.fatal = TRUE]

\* an ERR branch that leaves the plugin's callback in place
ErrPacketResult_NoClear(w, packet) ==
  throwError(w, MarkFatal(ServerError(readError(Cursor(packet)))))

\* case 0xff of handshakeResult
ErrPacketResult(w, packet) ==
  throwError(ClearCallback(w), MarkFatal(ServerError(readError(Cursor(packet)))))

\* an unexpected-packet error whose message leaves the marker out
UnexpectedPacketResult_NoMarker(w, marker) ==
  throwNewError(w, "ER_AUTHENTICATION_BAD_PACKET", TRUE, <<52, 50, 48, 48, 48>>, <<>>)

\* default case of handshakeResult
UnexpectedPacketResult(w, marker) ==
  throwNewError(w, "ER_AUTHENTICATION_BAD_PACKET", TRUE, <<52, 50, 48, 48, 48>>, <<marker>>)

\* Authentication.handshakeResult
handshakeResult(w, packet, o) ==
  LET marker == peek(Cursor(packet)) IN
  IF marker = 254 THEN dispatchAuthSwitchRequest(w, packet, o)
  ELSE IF marker = 0 THEN OkPacketResult(w, packet, o)
  ELSE IF marker = 255 THEN ErrPacketResult(w, packet)
  ELSE UnexpectedPacketResult(w, marker)

\* the plugin handles the packet in its own sub-protocol (a further round
\* of a multi-round mechanism) and answers it
PluginRound(w) == [w EXCEPT !.heap[w.plugin].sequenceNo = (@ + 1) % 256]

\* Authentication.onPacketReceive: the counters are copied to the plugin
\* in the slot and the packet goes to its callback.  A callback that was
\* cleared (or an object without one) makes the call throw a TypeError.
\* own: the attached plugin keeps the packet for its own sub-protocol
\* instead of handing it to handshakeResult.
onPacketReceive(w, packet, own, o, seqNo, compressSeqNo) ==
  LET w1 == [w EXCEPT !.heap[w.plugin].sequenceNo = seqNo,
                      !.heap[w.plugin].compressSequenceNo = compressSeqNo,
                      !.thrown = "none"]
  IN
  IF w1.heap[w1.plugin].onPacketReceive # "set"
  THEN [w1 EXCEPT !.thrown = "TypeError"]
  ELSE LET w2 == [w1 EXCEPT !.heap[w1.plugin].received = @ + 1] IN
       IF own THEN PluginRound(w2) ELSE handshakeResult(w2, packet, o)

----------------------------------------------------------------------------
(* Inbound packets.                                                        *)

\* a length-encoded integer below 65536
LenEnc(n) == IF n < 251 THEN <<n>> ELSE <<252, n % 256, n \div 256>>

UInt16(n) == <<n % 256, n \div 256>>

\* OK packet: header, affected rows, last insert id, status, warning count, tail
OkPacket(affected, insertId, st, warnings, tail) ==
  <<0>> \o LenEnc(affected) \o LenEnc(insertId) \o UInt16(st) \o UInt16(warnings) \o tail

OkHeads ==
  { [affected |-> 0, insertId |-> 0, status |-> 2, warnings |-> 0],
    [affected |-> 300, insertId |-> 7, status |-> 258, warnings |-> 1] }

\* String.prototype.toUpperCase on character codes
toUpperCase(str) ==
  [i \in 1..Len(str) |-> IF str[i] >= 97 /\ str[i] <= 122 THEN str[i] - 32 ELSE str[i]]

\* the hex digest a server that knows the password sends for this session
ServerDigestHex == toHexString(Sha256Digest(PluginHash(opts.password), info.seed, BufferFromHex(info.tlsFingerprint)))

\* the bytes of a string with the high bit of each set
HighBitSet(str) == [i \in 1..Len(str) |-> str[i] + 128]

\* validation hashes a server may send: none, matching (both cases of the
\* hex digits), not matching, matching or not under another tag byte, and
\* the matching digits with the high bit of every byte set
ValidationHashes ==
  { <<>>,
    <<1>> \o ServerDigestHex,
    <<1>> \o toUpperCase(ServerDigestHex),
    <<1>> \o toHexString(<<0, 0>>),
    <<2>> \o ServerDigestHex,
    <<2>> \o toHexString(<<0, 0>>),
    <<1>> \o HighBitSet(ServerDigestHex) }

OkTails == {<<>>} \cup { LenEnc(Len(h)) \o h : h \in ValidationHashes }

\* ERR packet: header, errno, '#', SQLSTATE, message
ErrPacket(errno, sqlState, message) == <<255>> \o UInt16(errno) \o <<35>> \o sqlState \o message

\* server errors: 1045 with SQLSTATE "28000", 1040 with SQLSTATE "08004"
ServerErrors ==
  { [errno |-> 1045, sqlState |-> <<50, 56, 48, 48, 48>>],
    [errno |-> 1040, sqlState |-> <<48, 56, 48, 48, 52>>] }

\* mechanism names a server may ask for
RequestedNames ==
  { mysql_native_password, mysql_clear_password, mysql_old_password,
    unknown_plugin, constructor, toString }

\* AuthSwitchRequest: header, null-terminated name, challenge
AuthSwitchPacket(name, data) == <<254>> \o name \o <<0>> \o data

\* the legacy AuthSwitchRequest: the header alone
LegacyAuthSwitchPacket == <<254>>

\* leading bytes that are none of 0x00, 0xfe, 0xff
OtherMarkers == {1, 10}

NoPacket ==
  [op |-> "none", marker |-> -1, status |-> -1, name |-> <<>>, data |-> <<>>,
   legacy |-> FALSE, pluginName |-> <<>>, pluginData |-> <<>>, to |-> 0, from |-> 0]

----------------------------------------------------------------------------
(* The state machine.                                                      *)

Seed == <<11, 12, 13, 14, 15, 16, 17, 18, 19, 20>>

\* hex fingerprint of the certificate: "a1B2"
TlsFingerprint == <<97, 49, 66, 50>>

Passwords ==
  { [isSet |-> FALSE, str |-> <<>>], [isSet |-> TRUE, str |-> <<>>], [isSet |-> TRUE, str |-> <<112, 119>>] }

RestrictedAuths ==
  { [isSet |-> FALSE, list |-> <<>>],
    [isSet |-> TRUE, list |-> <<>>],
    [isSet |-> TRUE, list |-> <<mysql_native_password>>],
    [isSet |-> TRUE, list |-> <<mysql_clear_password, mysql_old_password, unknown_plugin, toString>>] }

\* new Handshake(this, getSocket, this.handshakeResult, reject)
HandshakePlugin(permitHash) ==
  [cls |-> "handshake", pluginData |-> <<>>, sequenceNo |-> 0, compressSequenceNo |-> 0,
   onPacketReceive |-> "set", permitHash |-> permitHash, ends |-> 0, starts |-> 0, received |-> 0]

Init ==
  /\ info \in { [requireValidCert |-> r, selfSignedCertificate |-> s, clientCapabilities |-> c,
                 seed |-> Seed, tlsFingerprint |-> TlsFingerprint, status |-> 0]
                : r \in BOOLEAN, s \in BOOLEAN, c \in {0, PLUGIN_AUTH} }
  /\ opts \in { [restrictedAuth |-> a, password |-> p] : a \in RestrictedAuths, p \in Passwords }
  /\ plugin = 1
  /\ heap \in { <<HandshakePlugin(h)>> : h \in BOOLEAN }
  /\ sequenceNo = 0
  /\ compressSequenceNo = 0
  /\ active = TRUE
  /\ resolved = 0
  /\ rejected = <<>>
  /\ thrown = "none"
  /\ lookups = 0
  /\ npackets = 0
  /\ last = NoPacket

\* where the packet goes, decided by the state before it
Route(own, marker) ==
  IF ~active THEN "dropped"
  ELSE IF heap[plugin].onPacketReceive # "set" THEN "TypeError"
  ELSE IF own THEN "plugin"
  ELSE IF marker = 254 THEN "switch"
  ELSE IF marker = 0 THEN "ok"
  ELSE IF marker = 255 THEN "err"
  ELSE "other"

\* one inbound packet of the session.  The transport stamps the command
\* with the packet's sequence number before the call; a command that has
\* ended is not called any more.
Deliver(packet, own, meta) ==
  /\ npackets < MaxPackets
  /\ npackets' = npackets + 1
  /\ UNCHANGED opts
  /\ LET route == Route(own, packet[1])
         handled == route \in {"switch", "ok", "err", "other"}
     IN
     /\ last' = IF handled
                THEN LET req == IF route = "switch" THEN ParseAuthSwitchRequest(packet, info)
                                ELSE [pluginName |-> <<>>, pluginData |-> <<>>]
                     IN [meta EXCEPT !.op = route, !.marker = packet[1], !.to = plugin, !.from = plugin,
                                     !.pluginName = req.pluginName, !.pluginData = req.pluginData]
                ELSE [NoPacket EXCEPT !.op = route, !.to = IF route = "plugin" THEN plugin ELSE 0, !.from = plugin]
     /\ IF route = "dropped"
        THEN UNCHANGED <<info, plugin, heap, sequenceNo, compressSequenceNo, active,
                         resolved, rejected, thrown, lookups>>
        ELSE LET seqNo == (sequenceNo + 1) % 256
                 w == onPacketReceive(World, packet, own, opts, seqNo, compressSequenceNo)
             IN /\ sequenceNo' = seqNo
                /\ UNCHANGED compressSequenceNo
                /\ info' = w.info
                /\ plugin' = w.plugin
                /\ heap' = w.heap
                /\ active' = w.active
                /\ resolved' = w.resolved
                /\ rejected' = w.rejected
                /\ thrown' = w.thrown
                /\ lookups' = w.lookups

\* the server sends an OK packet
ReceiveOk ==
  \E h \in OkHeads, tail \in OkTails :
    Deliver(OkPacket(h.affected, h.insertId, h.status, h.warnings, tail), FALSE,
            [NoPacket EXCEPT !.status = h.status, !.data = tail])

\* the server sends an ERR packet
ReceiveErr ==
  \E e \in ServerErrors :
    Deliver(ErrPacket(e.errno, e.sqlState, <<65, 66>>), FALSE,
            [NoPacket EXCEPT !.status = e.errno, !.data = e.sqlState])

\* the server sends an AuthSwitchRequest naming a mechanism
ReceiveAuthSwitch ==
  \E name \in RequestedNames, data \in {<<1, 2, 3>>} :
    Deliver(AuthSwitchPacket(name, data), FALSE, [NoPacket EXCEPT !.name = name, !.data = data])

\* the server sends the legacy AuthSwitchRequest
ReceiveLegacyAuthSwitch ==
  Deliver(LegacyAuthSwitchPacket, FALSE, [NoPacket EXCEPT !.legacy = TRUE])

\* the server sends a packet of another kind
ReceiveOther ==
  \E m \in OtherMarkers : Deliver(<<m, 5>>, FALSE, NoPacket)

\* the server sends a packet of the active plugin's own sub-protocol
ReceivePluginData ==
  Deliver(<<1, 5>>, TRUE, NoPacket)

Next ==
  \/ ReceiveOk
  \/ ReceiveErr
  \/ ReceiveAuthSwitch
  \/ ReceiveLegacyAuthSwitch
  \/ ReceiveOther
  \/ ReceivePluginData

Spec == Init /\ [][Next]_vars

----------------------------------------------------------------------------
(* Properties.                                                             *)

\* the session trusted a self-signed certificate under a policy that
\* requires validation
SelfSignedCase == info.requireValidCert /\ info.selfSignedCertificate

\* no plugin receives a packet in this step, and none is constructed
NothingDispatched ==
  /\ Len(heap') = Len(heap)
  /\ \A i \in 1..Len(heap) : heap'[i].received = heap[i].received

\* the error record delivered in this step, when exactly one was
Rejection == rejected'[Len(rejected')]

OneRejection == Len(rejected') = Len(rejected) + 1 /\ \A i \in 1..Len(rejected) : rejected'[i] = rejected[i]

\* C1: an OK packet handled outside the self-signed case concludes the
\* handshake with success, info.status is the packet's status field, the
\* callback of the plugin in the slot is cleared, and from then on no
\* packet is dispatched to any plugin.
C1_OkConcludesSuccess ==
  [][ /\ (last'.op = "ok" /\ ~SelfSignedCase) =>
           /\ resolved' = resolved + 1
           /\ rejected' = rejected
           /\ thrown' = "none"
           /\ info'.status = last'.status
           /\ plugin' = plugin
           /\ heap'[plugin].onPacketReceive = "null"
      /\ (resolved > 0 /\ ~SelfSignedCase) => NothingDispatched
    ]_vars

\* an OK packet with status 258 concluded success and a later packet came
C1_Witness ==
  /\ ~SelfSignedCase
  /\ resolved = 1
  /\ info.status = 258
  /\ heap[plugin].onPacketReceive = "null"
  /\ npackets >= 2
  /\ last.op = "dropped"

\* C2: an ERR packet, in whatever state of the handshake, clears the
\* callback of the plugin in the slot and delivers through that plugin's
\* throwError an error record whose fatal flag is true, with the errno and
\* SQLSTATE of the packet; success is not signalled and no plugin is
\* constructed.
C2_ErrIsFatal ==
  [][ last'.op = "err" =>
        /\ plugin' = plugin
        /\ heap'[plugin].onPacketReceive = "null"
        /\ OneRejection
        /\ Rejection.fatal = TRUE
        /\ Rejection.via = "plugin.throwError"
        /\ Rejection.plugin = plugin
        /\ Rejection.errno = last'.status
        /\ Rejection.sqlState = last'.data
        /\ resolved' = resolved
        /\ Len(heap') = Len(heap)
        /\ lookups' = lookups
    ]_vars

\* an ERR packet with SQLSTATE "28000" was handled after a mechanism switch
C2_Witness ==
  /\ last.op = "err"
  /\ plugin = 2
  /\ heap[2].cls = "clear-password-auth"
  /\ Len(rejected) = 1
  /\ rejected[1].fatal
  /\ rejected[1].sqlState = <<50, 56, 48, 48, 48>>
  /\ rejected[1].plugin = 2

\* the validation hash of the OK packet described by last (empty when the
\* packet ends after the warning count)
SentValidationHash(l) == IF l.data = <<>> THEN <<>> ELSE Tail(l.data)

\* C3: in the self-signed case an OK packet concludes success only if it
\* carries a non-empty validation hash, the plugin supports hash emission,
\* a non-empty password is configured and the validator returns true; in
\* every other case the handshake fails fatally and success is never
\* signalled.
C3_SelfSignedSuccessOrFatal ==
  [][ (last'.op = "ok" /\ SelfSignedCase) =>
        LET h == SentValidationHash(last')
            usable == heap[plugin].permitHash /\ opts.password.isSet /\ opts.password.str # <<>>
            valid == /\ h # <<>>
                     /\ usable
                     /\ validateFingerPrint(h, PluginHash(opts.password), info.seed, info.tlsFingerprint) = "true"
        IN IF valid
           THEN resolved' = resolved + 1 /\ rejected' = rejected
           ELSE resolved' = resolved /\ OneRejection /\ Rejection.fatal = TRUE
    ]_vars

\* C4: an AuthSwitchRequest whose parsed name is absent from a configured
\* allow-list fails fatally with the mechanism-not-permitted error; the
\* registry is not read, no plugin is constructed and none is started.
C4_NotPermittedBeforeConstruction ==
  [][ (/\ last'.op = "switch"
       /\ opts.restrictedAuth.isSet
       /\ \A i \in 1..Len(opts.restrictedAuth.list) : opts.restrictedAuth.list[i] # last'.pluginName) =>
        /\ OneRejection
        /\ Rejection.code = "ER_NOT_SUPPORTED_AUTH_PLUGIN"
        /\ Rejection.fatal = TRUE
        /\ Rejection.detail = last'.pluginName
        /\ lookups' = lookups
        /\ Len(heap') = Len(heap)
        /\ plugin' = plugin
        /\ \A i \in 1..Len(heap) : heap'[i].starts = heap[i].starts
        /\ resolved' = resolved
    ]_vars

\* a registered mechanism that the allow-list does not name was refused
C4_Witness ==
  /\ last.op = "switch"
  /\ last.pluginName = mysql_clear_password
  /\ opts.restrictedAuth = [isSet |-> TRUE, list |-> <<mysql_native_password>>]
  /\ Len(rejected) = 1
  /\ rejected[1].code = "ER_NOT_SUPPORTED_AUTH_PLUGIN"
  /\ Len(heap) = 1
  /\ lookups = 0

\* the allow-list configuration lets the name through
Permitted(name) ==
  ~opts.restrictedAuth.isSet \/ \E i \in 1..Len(opts.restrictedAuth.list) : opts.restrictedAuth.list[i] = name

\* the step rejects with the unsupported-mechanism error and constructs nothing
UnsupportedMechanismFailure ==
  /\ OneRejection
  /\ Rejection.code = "ER_AUTHENTICATION_PLUGIN_NOT_SUPPORTED"
  /\ Rejection.fatal = TRUE
  /\ Rejection.detail = last'.pluginName
  /\ Len(heap') = Len(heap)
  /\ plugin' = plugin
  /\ resolved' = resolved

C6_ConcludesOnce == resolved + Len(rejected) <= 1

\* packets kept coming after the handshake was rejected, without a second outcome
C6_Witness ==
  /\ Len(rejected) = 1
  /\ resolved = 0
  /\ npackets = MaxPackets
  /\ last.op \in {"TypeError", "dropped"}

C8_PreviousPluginEndsOnce ==
  [][ /\ plugin' # plugin =>
           /\ plugin' = Len(heap) + 1
           /\ Len(heap') = Len(heap) + 1
           /\ heap'[plugin].ends = 1
           /\ heap'[plugin].onPacketReceive = "null"
           /\ heap'[plugin'].cls # "Number" =>
                (heap'[plugin'].starts = 1 /\ heap'[plugin'].onPacketReceive = "set")
      /\ \A i \in 1..Len(heap) : i # plugin =>
           /\ heap'[i].received = heap[i].received
           /\ heap'[i].ends = heap[i].ends
           /\ heap'[i].ends = 1
           /\ heap'[i].onPacketReceive = "null"
    ]_vars

\* the first plugin was replaced after two packets of its conversation,
\* and the plugin that replaced it has taken a packet since
C8_Witness ==
  /\ plugin = 2
  /\ heap[1].received = 2
  /\ heap[1].ends = 1
  /\ heap[1].onPacketReceive = "null"
  /\ heap[2].starts = 1
  /\ heap[2].received = 1

\* the plugins whose packet callback is in place
Attached(h) == { i \in 1..Len(h) : h[i].onPacketReceive = "set" }

\* C9: at most one plugin is active, and it is the one in the slot; a
\* packet handed to onPacketReceive goes only to the plugin in the slot
\* and only if its callback was in place, never to a detached plugin.
C9_OneActivePlugin ==
  [][ /\ Attached(heap) \subseteq {plugin}
      /\ Attached(heap') \subseteq {plugin'}
      /\ \A i \in 1..Len(heap) :
           heap'[i].received # heap[i].received =>
             (i = plugin /\ heap[i].onPacketReceive = "set" /\ heap'[i].received = heap[i].received + 1)
    ]_vars

\* a packet came after a switch that failed with the old plugin detached
C9_Witness ==
  /\ last.op = "TypeError"
  /\ thrown = "TypeError"
  /\ plugin = 1
  /\ heap[1].ends = 1
  /\ Attached(heap) = {}
  /\ Len(rejected) = 1
  /\ rejected[1].code = "ER_AUTHENTICATION_PLUGIN_NOT_SUPPORTED"

\* the first 8 bytes of the session seed
SeedChallenge == <<11, 12, 13, 14, 15, 16, 17, 18>>

\* C10 as stated: the legacy AuthSwitchRequest (the header alone) is
\* parsed to the name "mysql_old_password" and the first 8 bytes of the
\* seed, whether or not plugin-auth was negotiated.
C10_LegacyAlwaysOldPassword ==
  (last.op = "switch" /\ last.legacy) =>
    (last.pluginName = mysql_old_password /\ last.pluginData = SeedChallenge)

\* C10 amended: when plugin-auth was negotiated, the legacy
\* AuthSwitchRequest is parsed to the name "mysql_old_password" and the
\* first 8 bytes of the seed.
C10_LegacyOldPasswordWithPluginAuth ==
  (last.op = "switch" /\ last.legacy /\ HasPluginAuth(info.clientCapabilities)) =>
    (last.pluginName = mysql_old_password /\ last.pluginData = SeedChallenge)

\* a legacy request was handled with plugin-auth negotiated
C10_Witness ==
  /\ last.op = "switch"
  /\ last.legacy
  /\ HasPluginAuth(info.clientCapabilities)
  /\ Len(rejected) = 1
  /\ rejected[1].detail = mysql_old_password

\* C11: with plugin-auth negotiated, an AuthSwitchRequest naming a
\* registered and permitted mechanism N with challenge C constructs exactly
\* one plugin, the one registered under N, with the challenge C and the
\* sequence counters of the plugin it replaces (the counters the command
\* copied to that plugin for this packet; start then sends one packet),
\* puts it in the slot and starts it exactly once.
C11_SwitchConstructsRegisteredPlugin ==
  [][ (/\ last'.op = "switch"
       /\ ~last'.legacy
       /\ HasPluginAuth(info.clientCapabilities)
       /\ last'.name \in DOMAIN authenticationPlugins
       /\ Permitted(last'.name)) =>
        /\ Len(heap') = Len(heap) + 1
        /\ plugin' = Len(heap) + 1
        /\ heap'[plugin'].cls = authenticationPlugins[last'.name]
        /\ heap'[plugin'].pluginData = last'.data
        /\ heap'[plugin].sequenceNo = sequenceNo'
        /\ heap'[plugin].compressSequenceNo = compressSequenceNo'
        /\ heap'[plugin'].sequenceNo = (heap'[plugin].sequenceNo + 1) % 256
        /\ heap'[plugin'].compressSequenceNo = heap'[plugin].compressSequenceNo
        /\ heap'[plugin'].starts = 1
        /\ heap'[plugin'].onPacketReceive = "set"
        /\ lookups' = lookups + 1
        /\ rejected' = rejected
        /\ resolved' = resolved
    ]_vars

\* the clear-password plugin replaced a plugin that had itself replaced
\* the first one, and took the challenge 01 02 03
C11_Witness ==
  /\ last.op = "switch"
  /\ plugin = 3
  /\ heap[3].cls = "clear-password-auth"
  /\ heap[3].pluginData = <<1, 2, 3>>
  /\ heap[3].starts = 1
  /\ heap[2].cls = "native-password-auth"
  /\ heap[2].received = 1

\* the plugin in the slot supports hash emission and a non-empty password
\* is configured
UsableSecret == heap[plugin].permitHash /\ opts.password.isSet /\ opts.password.str # <<>>

\* C12: in the self-signed case, with a usable plugin hash and password,
\* an OK packet carrying a non-empty validation hash whose tag byte is not
\* 0x01 ends the handshake with the self-signed-validation-failed fatal
\* error (ER_SELF_SIGNED) delivered through the rejection path.
C12_WrongTagIsSelfSignedError ==
  [][ (/\ last'.op = "ok"
       /\ SelfSignedCase
       /\ UsableSecret
       /\ SentValidationHash(last') # <<>>
       /\ SentValidationHash(last')[1] # 1) =>
        /\ OneRejection
        /\ Rejection.code = "ER_SELF_SIGNED"
        /\ Rejection.fatal = TRUE
        /\ Rejection.via = "throwNewError"
        /\ resolved' = resolved
    ]_vars

\* the validator's comparison of the digest with the text after the tag
\* byte of h finds them equal
DigestMatches(h) == HashMatches(h, PluginHash(opts.password), info.seed, info.tlsFingerprint)

\* the step rejects with the given certificate-trust error
RaisedHere(code) == OneRejection /\ Rejection.code = code

\* C13: in the self-signed case the two certificate-trust errors are
\* distinct and never overlap: with a non-empty validation hash,
\* ER_SELF_SIGNED_NO_PWD is raised exactly when the plugin does not support
\* hash emission or no non-empty password is configured (the validator is
\* not reached then, whatever the tag byte); ER_SELF_SIGNED is raised
\* exactly when a secret and the hash capability exist but the digest does
\* not match, or when no non-empty validation hash is supplied.
C13_DistinctCertificateErrors ==
  [][ (last'.op = "ok" /\ SelfSignedCase) =>
        LET h == SentValidationHash(last') IN
        /\ RaisedHere("ER_SELF_SIGNED_NO_PWD") <=> (h # <<>> /\ ~UsableSecret)
        /\ RaisedHere("ER_SELF_SIGNED") <=> (h = <<>> \/ (UsableSecret /\ ~DigestMatches(h)))
        /\ ~(RaisedHere("ER_SELF_SIGNED_NO_PWD") /\ RaisedHere("ER_SELF_SIGNED"))
    ]_vars

\* the plugins whose callback this step cleared
Detached == { i \in 1..Len(heap) : heap[i].onPacketReceive = "set" /\ heap'[i].onPacketReceive = "null" }

\* C14: whenever the dispatcher clears a plugin's packet callback, on a
\* mechanism switch, on an OK packet or on an ERR packet, that plugin is sent
\* the end notification in the same step.
C14_DetachNotifiesEnd ==
  [][ \A i \in Detached : heap'[i].ends = heap[i].ends + 1 ]_vars

\* the AuthSwitchRequest of this step names a mechanism that the allow-list
\* excludes or that the registry does not know
PolicyFailure ==
  /\ last'.op = "switch"
  /\ ~Permitted(last'.pluginName) \/ RegistryGet(last'.pluginName) = "undefined"

\* C16: an AuthSwitchRequest that fails by policy raises its error before
\* any plugin is constructed and leaves no partial state: the slot holds the
\* plugin it held, with its callback in place and no end notification sent.
C16_PolicyFailureLeavesNoPartialState ==
  [][ PolicyFailure =>
        /\ OneRejection
        /\ Rejection.fatal = TRUE
        /\ Len(heap') = Len(heap)
        /\ plugin' = plugin
        /\ heap'[plugin].onPacketReceive = "set"
        /\ heap'[plugin].ends = heap[plugin].ends
        /\ heap'[plugin].starts = heap[plugin].starts
    ]_vars

\* C17: a packet whose leading byte is none of 0x00, 0xFE, 0xFF fails the
\* handshake fatally with the unexpected-packet-type error, whose message
\* holds that byte value; no plugin is constructed, no end notification is
\* sent, success is not concluded and info.status is unchanged.
C17_UnexpectedLeadingByteIsBadPacket ==
  [][ last'.op = "other" =>
        /\ last'.marker \notin {0, 254, 255}
        /\ OneRejection
        /\ Rejection.code = "ER_AUTHENTICATION_BAD_PACKET"
        /\ Rejection.fatal = TRUE
        /\ Rejection.via = "throwNewError"
        /\ Rejection.detail = <<last'.marker>>
        /\ Len(heap') = Len(heap)
        /\ plugin' = plugin
        /\ \A i \in 1..Len(heap) : heap'[i].ends = heap[i].ends /\ heap'[i].starts = heap[i].starts
        /\ resolved' = resolved
        /\ thrown' = thrown
        /\ info'.status = info.status
    ]_vars

\* a packet led by 0x0A arrived after a mechanism switch and was answered
\* with the unexpected-packet-type error naming byte 10
C17_Witness ==
  /\ last.op = "other"
  /\ last.marker = 10
  /\ Len(heap) = 2
  /\ heap[1].ends = 1
  /\ heap[2].ends = 0
  /\ resolved = 0
  /\ Len(rejected) = 1
  /\ rejected[1].code = "ER_AUTHENTICATION_BAD_PACKET"
  /\ rejected[1].detail = <<10>>
  /\ rejected[1].fatal = TRUE

\* the hex encoding of hash(credentialHash ++ seed ++ certFingerprint)
ExpectedHex == toHexString(Sha256Digest(PluginHash(opts.password), info.seed, BufferFromHex(info.tlsFingerprint)))

\* the bytes after the tag byte of h are, up to the case of the letters,
\* the characters of the expected hex encoding
BytesEqualExpectedHex(h) ==
  /\ Len(h) - 1 = Len(ExpectedHex)
  /\ \A i \in 1..Len(ExpectedHex) :
       LET b == h[i + 1] IN (IF b >= 65 /\ b <= 90 THEN b + 32 ELSE b) = ExpectedHex[i]

\* C18: the validator answers true exactly when the validation hash is
\* non-empty, its tag byte is 0x01 and the bytes after the tag byte equal,
\* case-insensitively, the hex encoding of the digest; observed on an OK
\* packet of the self-signed case with a usable secret, where the answer
\* true and nothing else concludes success.
C18_ValidatorTrueIffHexDigestMatches ==
  [][ (last'.op = "ok" /\ SelfSignedCase /\ UsableSecret /\ SentValidationHash(last') # <<>>) =>
        LET h == SentValidationHash(last') IN
        (resolved' = resolved + 1) <=> (h[1] = 1 /\ BytesEqualExpectedHex(h))
    ]_vars

\* C19: without plugin-auth an AuthSwitchRequest made of the header byte,
\* a null-terminated name N and challenge bytes C is parsed to (N, C), and
\* for a registered and permitted N the plugin registered under N is
\* constructed with C, put in the slot and started, as it is with
\* plugin-auth negotiated.
C19_ParseWithoutPluginAuth ==
  [][ (last'.op = "switch" /\ ~last'.legacy /\ ~HasPluginAuth(info.clientCapabilities)) =>
        /\ last'.pluginName = last'.name
        /\ last'.pluginData = last'.data
        /\ (last'.name \in DOMAIN authenticationPlugins /\ Permitted(last'.name)) =>
             /\ Len(heap') = Len(heap) + 1
             /\ plugin' = Len(heap) + 1
             /\ heap'[plugin'].cls = authenticationPlugins[last'.name]
             /\ heap'[plugin'].pluginData = last'.data
             /\ heap'[plugin'].starts = 1
             /\ rejected' = rejected
    ]_vars

\* C20: a legacy AuthSwitchRequest with plugin-auth negotiated constructs
\* and starts no plugin: it ends in the unsupported-mechanism fatal error
\* when no allow-list is configured or the allow-list holds
\* "mysql_old_password", and in the mechanism-not-permitted fatal error
\* otherwise.
C20_LegacySwitchNeverConstructs ==
  [][ (last'.op = "switch" /\ last'.legacy /\ HasPluginAuth(info.clientCapabilities)) =>
        /\ Len(heap') = Len(heap)
        /\ plugin' = plugin
        /\ \A i \in 1..Len(heap) : heap'[i].starts = heap[i].starts
        /\ resolved' = resolved
        /\ OneRejection
        /\ Rejection.fatal = TRUE
        /\ Rejection.detail = mysql_old_password
        /\ Rejection.code = IF Permitted(mysql_old_password)
                            THEN "ER_AUTHENTICATION_PLUGIN_NOT_SUPPORTED"
                            ELSE "ER_NOT_SUPPORTED_AUTH_PLUGIN"
    ]_vars

\* a legacy request came after a switch to the clear-password mechanism,
\* under an allow-list that holds "mysql_old_password", and ended in the
\* unsupported-mechanism error with no third plugin constructed
C20_Witness ==
  /\ last.op = "switch"
  /\ last.legacy
  /\ HasPluginAuth(info.clientCapabilities)
  /\ opts.restrictedAuth.isSet
  /\ Permitted(mysql_old_password)
  /\ Len(heap) = 2
  /\ heap[2].cls = "clear-password-auth"
  /\ heap[2].starts = 1
  /\ Len(rejected) = 1
  /\ rejected[1].code = "ER_AUTHENTICATION_PLUGIN_NOT_SUPPORTED"
  /\ rejected[1].fatal = TRUE


============================================================================
